---- MODULE Spec2Model ----
(***************************************************************************)
(* bridge_lambda.py: an ALB-triggered Lambda handler that forwards the     *)
(* query parameters of the inbound event as a JSON message to an SQS queue *)
(* and answers with an ALB response.                                       *)
(*                                                                         *)
(* Python values are tagged records: None, Str(s) with s a sequence of     *)
(* one-character strings, Dict(items) with items the sequence of           *)
(* <<key, value>> pairs in insertion order (the order json.dumps emits).   *)
(* An event is a record that may or may not have the field                 *)
(* queryStringParameters.                                                  *)
(***************************************************************************)
EXTENDS Naturals, Sequences, FiniteSets, TLC

\* ------------------------------------------------------------------ bounds
NumInvocations == 2
MaxParams == 2

\* ------------------------------------------------------------ Python values
None == [t |-> "none", v |-> <<>>]
Str(s) == [t |-> "str", v |-> s]
Dict(items) == [t |-> "dict", v |-> items]
EmptyStr == Str(<<>>)
EmptyDict == Dict(<<>>)

\* Python truthiness of None, a str and a dict.
Truthy(x) ==
    CASE x.t = "none" -> FALSE
      [] x.t = "str" -> Len(x.v) > 0
      [] x.t = "dict" -> Len(x.v) > 0

\* dict.get(key, default) on the event.
dict_get(d, key, default) ==
    IF key \in DOMAIN d THEN d[key] ELSE default

\* ------------------------------------------------------------- json.dumps
\* The escapes json.dumps applies to the characters of the modelled alphabet.
EscapeChar(c) ==
    IF c = "\"" THEN <<"\\", "\"">>
    ELSE IF c = "\\" THEN <<"\\", "\\">>
    ELSE <<c>>

\* The escaped characters of s[lo..hi], in order (split in halves to keep the
\* evaluation shallow on long texts).
RECURSIVE EscapeRange(_, _, _)
EscapeRange(s, lo, hi) ==
    IF lo > hi THEN <<>>
    ELSE IF lo = hi THEN EscapeChar(s[lo])
    ELSE LET mid == (lo + hi) \div 2
         IN  EscapeRange(s, lo, mid) \o EscapeRange(s, mid + 1, hi)

EscapeStr(s) == EscapeRange(s, 1, Len(s))

DumpsStr(s) ==
    <<"\"">> \o EscapeStr(s) \o <<"\"">>

RECURSIVE json_dumps(_)
RECURSIVE DumpsItems(_)
DumpsItems(items) ==
    IF items = <<>> THEN <<>>
    ELSE DumpsStr(Head(items)[1]) \o <<":", " ">> \o json_dumps(Head(items)[2])
         \o (IF Tail(items) = <<>> THEN <<>> ELSE <<",", " ">> \o DumpsItems(Tail(items)))

json_dumps(x) ==
    CASE x.t = "none" -> <<"n", "u", "l", "l">>
      [] x.t = "str" -> DumpsStr(x.v)
      [] x.t = "dict" -> <<"{">> \o DumpsItems(x.v) \o <<"}">>

\* ------------------------------------------------------------ fixed texts
MissingConfigText ==
    << "M", "i", "s", "s", "i", "n", "g", " ", "S", "Q", "S", " ", "q", "u", "e", "u",
       "e", " ", "U", "R", "L", " ", "c", "o", "n", "f", "i", "g", "u", "r", "a", "t",
       "i", "o", "n" >>

SuccessText ==
    << "W", "e", "e", "k", "l", "y", " ", "s", "u", "m", "m", "a", "r", "y", " ", "d",
       "r", "a", "f", "t", " ", "a", "n", "d", " ", "M", "y", "C", "h", "a", "r", "t",
       " ", "m", "e", "s", "s", "a", "g", "e", " ", "d", "r", "a", "f", "t", " ", "s",
       "u", "c", "c", "e", "s", "s", "f", "u", "l", "l", "y", " ", "r", "e", "q", "u",
       "e", "s", "t", "e", "d", ".", " ", "P", "l", "e", "a", "s", "e", " ", "a", "l",
       "l", "o", "w", " ", "1", "0", "-", "1", "5", " ", "s", "e", "c", "o", "n", "d",
       "s", " ", "d", "e", "l", "a", "y", " ", "a", "n", "d", " ", "m", "o", "v", "e",
       " ", "t", "o", " ", "C", "h", "a", "r", "t", " ", "R", "e", "v", "i", "e", "w",
       " ", "a", "n", "d", " ", "l", "o", "o", "k", " ", "f", "o", "r", " ", "t", "h",
       "e", " ", "d", "r", "a", "f", "t", "s", "." >>

FailedPrefix ==
    << "F", "a", "i", "l", "e", "d", " ", "t", "o", " ", "s", "e", "n", "d", " ", "m",
       "e", "s", "s", "a", "g", "e", " ", "t", "o", " ", "S", "Q", "S", ":", " " >>

MessageKey == <<"m", "e", "s", "s", "a", "g", "e">>

\* ------------------------------------------------------------ input sets
ParamKeys == {<<"a">>, <<"b">>, <<"c">>}
ParamValues == {Str(<<"1">>), Str(<<"x", "\"">>)}
ParamItems == ParamKeys \X ParamValues

\* Item sequences of at most MaxParams pairs with pairwise distinct keys.
ItemSeqs ==
    {s \in UNION {[1..n -> ParamItems] : n \in 0..MaxParams} :
        \A i, j \in DOMAIN s : i # j => s[i][1] # s[j][1]}

QueryMappings == {Dict(s) : s \in ItemSeqs}

\* ALB events: queryStringParameters missing, null, or a mapping.
Events ==
    {[httpMethod |-> "GET"]}
    \cup {[httpMethod |-> "GET", queryStringParameters |-> q] :
            q \in {None} \cup QueryMappings}

\* A small set of events for the runs with concurrent invocations.
ConcEvents ==
    { [httpMethod |-> "GET"],
      [httpMethod |-> "GET", queryStringParameters |-> Dict(<< <<<<"a">>, Str(<<"1">>)>> >>)],
      [httpMethod |-> "GET",
       queryStringParameters |-> Dict(<< <<<<"b">>, Str(<<"x", "\"">>)>>,
                                         <<<<"a">>, Str(<<"1">>)>> >>)] }

QueueUrls == {Str(<<"q", "1">>), Str(<<"q", "2">>)}
\* What the process environment holds for SQS_QUEUE_URL: unset (None) or a string.
EnvValues == {None, EmptyStr} \cup QueueUrls

\* What the provider does with one send_message call.
OkOutcome(mid) == [kind |-> "ok", v |-> mid]
ClientErrorOutcome(text) == [kind |-> "ClientError", v |-> text]
OtherErrorOutcome == [kind |-> "OtherError", v |-> <<>>]
MessageIds == {<<"m", "1">>, <<"m", "2">>}
ErrorTexts == {<<"D", "e", "n", "i", "e", "d">>, <<"n", "o", " ", "\"", "q", "\"">>}
Outcomes ==
    {OkOutcome(m) : m \in MessageIds}
    \cup {ClientErrorOutcome(t) : t \in ErrorTexts}
    \cup {OtherErrorOutcome}
ConcOutcomes ==
    {OkOutcome(<<"m", "1">>), ClientErrorOutcome(<<"D", "e", "n", "i", "e", "d">>),
     OtherErrorOutcome}

Invocations == 1..NumInvocations

\* ------------------------------------------------------------------ state
VARIABLES
    os_environ,             \* value of SQS_QUEUE_URL in the process environment
    Config_sqs_queue_url,   \* the default of Config.sqs_queue_url (class attribute)
    pc,                     \* position of each invocation of handler
    event,                  \* the event each invocation was called with
    config,                 \* config.sqs_queue_url of each invocation
    sqs_client,             \* whether the invocation has created its client
    query_params,           \* local query_params
    result,                 \* local (success, message_id, error)
    response,               \* what the invocation returned, None before
    sqs_calls,              \* the send_message calls each invocation has made
    outcome                 \* what the provider did with the invocation's call

vars ==
    <<os_environ, Config_sqs_queue_url, pc, event, config, sqs_client,
      query_params, result, response, sqs_calls, outcome>>

\* os.environ.get('SQS_QUEUE_URL', default)
environ_get(env, default) ==
    IF env = None THEN default ELSE env

\* ---------------------------------------------------------- pure functions
\* Variant: the "or {}" is missing, so a null field is handed on as None.
parse_query_parameters_NoOrDefault(ev) ==
    dict_get(ev, "queryStringParameters", EmptyDict)

\* Variant: a sanitising parse that drops the pairs whose value holds a quote.
parse_query_parameters_Sanitising(ev) ==
    LET got == dict_get(ev, "queryStringParameters", EmptyDict)
        Clean(p) == \A k \in DOMAIN p[2].v : p[2].v[k] # "\""
    IN  IF Truthy(got) THEN Dict(SelectSeq(got.v, Clean)) ELSE EmptyDict

parse_query_parameters(ev) ==
    LET got == dict_get(ev, "queryStringParameters", EmptyDict)
    IN  IF Truthy(got) THEN got ELSE EmptyDict

create_response(status_code, body) ==
    [statusCode |-> status_code,
     headers |-> ("Content-Type" :> "application/json"),
     body |-> json_dumps(body)]

MessageBodyDict(message) == Dict(<< <<MessageKey, message>> >>)

\* success, message_id, error before the send assigns them.
NoResult == <<FALSE, None, None>>

\* send_to_sqs given what the provider does with the call: the call made, and
\* either the returned tuple or the exception that leaves the function.
send_to_sqs(provider, queue_url, message) ==
    LET call == [QueueUrl |-> queue_url, MessageBody |-> json_dumps(message)]
    IN  CASE provider.kind = "ok" ->
               [call |-> call, raised |-> FALSE,
                ret |-> <<TRUE, Str(provider.v), None>>]
          [] provider.kind = "ClientError" ->
               [call |-> call, raised |-> FALSE,
                ret |-> <<FALSE, None, Str(FailedPrefix \o provider.v)>>]
          [] provider.kind = "OtherError" ->
               [call |-> call, raised |-> TRUE, ret |-> NoResult]

\* Variant: the success message carries the provider's message identifier.
handler_result_response_EchoId(res) ==
    IF res[1] = TRUE
    THEN create_response(200, MessageBodyDict(res[2]))
    ELSE create_response(500, MessageBodyDict(res[3]))

\* Variant: the failure branch takes the wrong element of the tuple.
handler_result_response_WrongField(res) ==
    IF res[1] = TRUE
    THEN create_response(200, MessageBodyDict(Str(SuccessText)))
    ELSE create_response(500, MessageBodyDict(res[2]))

\* The branch on success at the end of handler.
handler_result_response(res) ==
    IF res[1] = TRUE
    THEN create_response(200, MessageBodyDict(Str(SuccessText)))
    ELSE create_response(500, MessageBodyDict(res[3]))

\* ------------------------------------------------------------------- Init
\* The module has been imported: the class body of Config has evaluated
\* os.environ.get('SQS_QUEUE_URL', '') once and keeps it as the field default.
Config_class_default(env) == environ_get(env, EmptyStr)

NoOutcome == [kind |-> "none", v |-> <<>>]
NoEvent == [httpMethod |-> "none"]

Init ==
    /\ os_environ \in EnvValues
    /\ Config_sqs_queue_url = Config_class_default(os_environ)
    /\ pc = [i \in Invocations |-> "idle"]
    /\ event = [i \in Invocations |-> NoEvent]
    /\ config = [i \in Invocations |-> None]
    /\ sqs_client = [i \in Invocations |-> FALSE]
    /\ query_params = [i \in Invocations |-> None]
    /\ result = [i \in Invocations |-> NoResult]
    /\ response = [i \in Invocations |-> None]
    /\ sqs_calls = [i \in Invocations |-> <<>>]
    /\ outcome = [i \in Invocations |-> NoOutcome]

\* ---------------------------------------------------------------- actions
\* The process changes SQS_QUEUE_URL in its environment.
SetEnv(v) ==
    /\ v # os_environ
    /\ os_environ' = v
    /\ UNCHANGED <<Config_sqs_queue_url, pc, event, config, sqs_client,
                   query_params, result, response, sqs_calls, outcome>>

\* The runtime calls handler(event, context); the frame starts with no locals.
Invoke(i, e) ==
    /\ pc[i] \in {"idle", "returned", "raised"}
    /\ pc' = [pc EXCEPT ![i] = "config"]
    /\ event' = [event EXCEPT ![i] = e]
    /\ config' = [config EXCEPT ![i] = None]
    /\ sqs_client' = [sqs_client EXCEPT ![i] = FALSE]
    /\ query_params' = [query_params EXCEPT ![i] = None]
    /\ result' = [result EXCEPT ![i] = NoResult]
    /\ response' = [response EXCEPT ![i] = None]
    /\ sqs_calls' = [sqs_calls EXCEPT ![i] = <<>>]
    /\ outcome' = [outcome EXCEPT ![i] = NoOutcome]
    /\ UNCHANGED <<os_environ, Config_sqs_queue_url>>

\* config = Config(): the instance takes the field default of the class.
Config_new == Config_sqs_queue_url

\* Variant: the validation tests "is None" instead of emptiness.
Validate_IsNoneTest(i) ==
    /\ pc[i] = "config"
    /\ LET c == Config_new
       IN  /\ config' = [config EXCEPT ![i] = c]
           /\ IF c = None
              THEN /\ response' = [response EXCEPT ![i] =
                          create_response(500, MessageBodyDict(Str(MissingConfigText)))]
                   /\ pc' = [pc EXCEPT ![i] = "returned"]
              ELSE /\ pc' = [pc EXCEPT ![i] = "client"]
                   /\ UNCHANGED response
    /\ UNCHANGED <<os_environ, Config_sqs_queue_url, event, sqs_client,
                   query_params, result, sqs_calls, outcome>>

\* config = Config() and the validation of config.sqs_queue_url.
Validate(i) ==
    /\ pc[i] = "config"
    /\ LET c == Config_new
       IN  /\ config' = [config EXCEPT ![i] = c]
           /\ IF ~Truthy(c)
              THEN /\ response' = [response EXCEPT ![i] =
                          create_response(500, MessageBodyDict(Str(MissingConfigText)))]
                   /\ pc' = [pc EXCEPT ![i] = "returned"]
              ELSE /\ pc' = [pc EXCEPT ![i] = "client"]
                   /\ UNCHANGED response
    /\ UNCHANGED <<os_environ, Config_sqs_queue_url, event, sqs_client,
                   query_params, result, sqs_calls, outcome>>

\* sqs_client = boto3.client('sqs')
CreateClient(i) ==
    /\ pc[i] = "client"
    /\ sqs_client' = [sqs_client EXCEPT ![i] = TRUE]
    /\ pc' = [pc EXCEPT ![i] = "parse"]
    /\ UNCHANGED <<os_environ, Config_sqs_queue_url, event, config,
                   query_params, result, response, sqs_calls, outcome>>

\* query_params = parse_query_parameters(event)
Parse(i) ==
    /\ pc[i] = "parse"
    /\ query_params' = [query_params EXCEPT ![i] = parse_query_parameters(event[i])]
    /\ pc' = [pc EXCEPT ![i] = "send"]
    /\ UNCHANGED <<os_environ, Config_sqs_queue_url, event, config,
                   sqs_client, result, response, sqs_calls, outcome>>

\* Variant: a failed send is tried once more before it is reported.
Send_RetryOnError(i, o) ==
    /\ pc[i] = "send"
    /\ LET r == send_to_sqs(o, config[i], query_params[i])
       IN  /\ sqs_calls' = [sqs_calls EXCEPT ![i] = Append(@, r.call)]
           /\ outcome' = [outcome EXCEPT ![i] = o]
           /\ IF r.raised
              THEN /\ pc' = [pc EXCEPT ![i] = "raised"]
                   /\ UNCHANGED result
              ELSE IF r.ret[1] = FALSE /\ Len(sqs_calls[i]) = 0
              THEN /\ UNCHANGED pc
                   /\ result' = [result EXCEPT ![i] = r.ret]
              ELSE /\ pc' = [pc EXCEPT ![i] = "respond"]
                   /\ result' = [result EXCEPT ![i] = r.ret]
    /\ UNCHANGED <<os_environ, Config_sqs_queue_url, event, config,
                   sqs_client, query_params, response>>

\* Variant: success, message_id and error are module-level names, so one
\* invocation's send overwrites what every other invocation holds.
Send_ModuleLevelResult(i, o) ==
    /\ pc[i] = "send"
    /\ LET r == send_to_sqs(o, config[i], query_params[i])
       IN  /\ sqs_calls' = [sqs_calls EXCEPT ![i] = Append(@, r.call)]
           /\ outcome' = [outcome EXCEPT ![i] = o]
           /\ IF r.raised
              THEN /\ pc' = [pc EXCEPT ![i] = "raised"]
                   /\ UNCHANGED result
              ELSE /\ pc' = [pc EXCEPT ![i] = "respond"]
                   /\ result' = [j \in Invocations |-> r.ret]
    /\ UNCHANGED <<os_environ, Config_sqs_queue_url, event, config,
                   sqs_client, query_params, response>>

\* success, message_id, error = send_to_sqs(sqs_client, config.sqs_queue_url,
\* query_params), the provider answering the call with o. An exception other
\* than ClientError is caught nowhere and leaves handler.
Send(i, o) ==
    /\ pc[i] = "send"
    /\ LET r == send_to_sqs(o, config[i], query_params[i])
       IN  /\ sqs_calls' = [sqs_calls EXCEPT ![i] = Append(@, r.call)]
           /\ outcome' = [outcome EXCEPT ![i] = o]
           /\ IF r.raised
              THEN /\ pc' = [pc EXCEPT ![i] = "raised"]
                   /\ UNCHANGED result
              ELSE /\ pc' = [pc EXCEPT ![i] = "respond"]
                   /\ result' = [result EXCEPT ![i] = r.ret]
    /\ UNCHANGED <<os_environ, Config_sqs_queue_url, event, config,
                   sqs_client, query_params, response>>

\* if success: return create_response(200, ...) else: return create_response(500, ...)
Respond(i) ==
    /\ pc[i] = "respond"
    /\ response' = [response EXCEPT ![i] = handler_result_response(result[i])]
    /\ pc' = [pc EXCEPT ![i] = "returned"]
    /\ UNCHANGED <<os_environ, Config_sqs_queue_url, event, config,
                   sqs_client, query_params, result, sqs_calls, outcome>>

\* -------------------------------------------------------- specifications
\* One execution environment serving one invocation at a time, again and again.
Main == CHOOSE i \in Invocations : \A j \in Invocations : i <= j

Next ==
    \/ \E v \in EnvValues : SetEnv(v)
    \/ \E e \in Events : Invoke(Main, e)
    \/ Validate(Main)
    \/ CreateClient(Main)
    \/ Parse(Main)
    \/ \E o \in Outcomes : Send(Main, o)
    \/ Respond(Main)

Spec == Init /\ [][Next]_vars

\* Several invocations of handler in the same process, interleaved step by step.
NextConc ==
    \/ \E v \in EnvValues : SetEnv(v)
    \/ \E i \in Invocations :
        \/ \E e \in ConcEvents : Invoke(i, e)
        \/ Validate(i)
        \/ CreateClient(i)
        \/ Parse(i)
        \/ \E o \in ConcOutcomes : Send(i, o)
        \/ Respond(i)

SpecConc == Init /\ [][NextConc]_vars

\* ================================================================ claims
Done(i) == pc[i] \in {"returned", "raised"}
Started(i) == pc[i] # "idle"
JsonHeaders == ("Content-Type" :> "application/json")

\* The text {"message": "<inner>"} written out character by character.
MessageJsonText(inner) ==
    <<"{", "\"", "m", "e", "s", "s", "a", "g", "e", "\"", ":", " ", "\"">>
    \o inner \o <<"\"", "}">>

HasQueryField(ev) == "queryStringParameters" \in DOMAIN ev

\* ---- C1
\* C1: when the configured queue address is empty, an invocation never creates
\* a client and never calls send_message, goes from the validation straight to
\* its return, and returns status 500 with the body
\* {"message": "Missing SQS queue URL configuration"}.
C1_MissingConfigFailsFast ==
    \A i \in Invocations :
        (Started(i) /\ ~Truthy(Config_sqs_queue_url)) =>
            /\ sqs_client[i] = FALSE
            /\ sqs_calls[i] = <<>>
            /\ pc[i] \in {"config", "returned"}
            /\ pc[i] = "returned" =>
                 response[i] = [statusCode |-> 500, headers |-> JsonHeaders,
                                body |-> MessageJsonText(MissingConfigText)]

C1_Witness ==
    /\ ~Truthy(Config_sqs_queue_url)
    /\ pc[Main] = "returned"
    /\ HasQueryField(event[Main])
    /\ response[Main] # None

\* ---- C2
\* C2: when the queue address is non-empty and the send succeeds, the response
\* is status 200 with one fixed body, whatever the query parameters and
\* whatever message identifier the provider returned.
C2_SuccessIsFixed200 ==
    \A i \in Invocations :
        (pc[i] = "returned" /\ Truthy(config[i]) /\ outcome[i].kind = "ok") =>
            response[i] = [statusCode |-> 200, headers |-> JsonHeaders,
                           body |-> MessageJsonText(SuccessText)]

C2_Witness ==
    /\ pc[Main] = "returned"
    /\ outcome[Main] = OkOutcome(<<"m", "2">>)
    /\ Len(query_params[Main].v) = 2
    /\ response[Main] # None

\* ---- C3
\* C3: when the queue address is non-empty and the send fails, the invocation
\* ends by returning a response of status 500 whose body message is
\* "Failed to send message to SQS: " followed by the error text.
C3_SendFailureIs500 ==
    \A i \in Invocations :
        (Done(i) /\ Truthy(config[i])
           /\ outcome[i].kind \in {"ClientError", "OtherError"}) =>
            /\ pc[i] = "returned"
            /\ response[i] = [statusCode |-> 500, headers |-> JsonHeaders,
                              body |-> MessageJsonText(FailedPrefix
                                                       \o EscapeStr(outcome[i].v))]

\* ---- C4
\* C4: the queue address an invocation tests and uses is the value the process
\* environment holds when that invocation reads its configuration.
C4_ConfigReadAtInvocation ==
    [][\A i \in Invocations :
         (pc[i] = "config" /\ pc'[i] # "config") =>
             config'[i] = environ_get(os_environ, EmptyStr)]_vars

\* ---- C5
\* C5: every invocation that has ended has returned a response whose
\* statusCode is 200 or 500.
C5_EndsIn200Or500 ==
    \A i \in Invocations :
        Done(i) => /\ response[i] # None
                   /\ response[i].statusCode \in {200, 500}

\* ---- C6
\* C6: with a non-empty queue address an invocation calls send_message exactly
\* once: no call before the send step, one call from then on, after a success
\* and after a failure alike.
C6_ExactlyOneSend ==
    \A i \in Invocations :
        (Started(i) /\ Truthy(Config_sqs_queue_url)) =>
            /\ pc[i] \in {"config", "client", "parse", "send"} => Len(sqs_calls[i]) = 0
            /\ pc[i] \in {"respond", "returned", "raised"} => Len(sqs_calls[i]) = 1

C6_Witness ==
    /\ pc[Main] = "returned"
    /\ outcome[Main].kind = "ClientError"
    /\ Len(sqs_calls[Main]) = 1

\* ---- C7
EmptyQuery(ev) ==
    \/ ~HasQueryField(ev)
    \/ ev.queryStringParameters = None
    \/ ev.queryStringParameters = EmptyDict

\* C7: for an event whose queryStringParameters is missing, null or the empty
\* mapping, parse_query_parameters gives the empty mapping and the payload of
\* the send is the text {}.
C7_EmptyQuerySendsEmptyObject ==
    \A i \in Invocations :
        (Started(i) /\ EmptyQuery(event[i])) =>
            /\ parse_query_parameters(event[i]) = [t |-> "dict", v |-> <<>>]
            /\ (pc[i] \in {"send", "respond", "returned", "raised"} /\ sqs_client[i])
                 => query_params[i] = [t |-> "dict", v |-> <<>>]
            /\ \A k \in DOMAIN sqs_calls[i] : sqs_calls[i][k].MessageBody = <<"{", "}">>

C7_Witness ==
    /\ HasQueryField(event[Main])
    /\ event[Main].queryStringParameters = None
    /\ Len(sqs_calls[Main]) = 1

\* ---- C8
\* Reading the inside of a JSON string: "N" between characters, "E" right
\* after a backslash, "X" once the text is no string inside (a bare quote, or
\* a backslash that starts none of the escapes \" and \\).
ScanChar(q, c) ==
    CASE q = "N" -> (IF c = "\\" THEN "E" ELSE IF c = "\"" THEN "X" ELSE "N")
      [] q = "E" -> (IF c \in {"\\", "\""} THEN "N" ELSE "X")
      [] q = "X" -> "X"

ScanStates == {"N", "E", "X"}

\* For each state, where reading t[lo..hi] from it ends (split in halves to
\* stay shallow on long texts).
RECURSIVE ScanRange(_, _, _)
ScanRange(t, lo, hi) ==
    IF lo > hi THEN [q \in ScanStates |-> q]
    ELSE IF lo = hi THEN [q \in ScanStates |-> ScanChar(q, t[lo])]
    ELSE LET mid == (lo + hi) \div 2
             left == ScanRange(t, lo, mid)
             right == ScanRange(t, mid + 1, hi)
         IN  [q \in ScanStates |-> right[left[q]]]

JsonStringInside(t) == ScanRange(t, 1, Len(t))["N"] = "N"

MessagePrefixLen == Len(MessageJsonText(<<>>)) - 2

IsMessageObjectText(b) ==
    /\ Len(b) >= MessagePrefixLen + 2
    /\ b = MessageJsonText(SubSeq(b, MessagePrefixLen + 1, Len(b) - 2))
    /\ JsonStringInside(SubSeq(b, MessagePrefixLen + 1, Len(b) - 2))

\* C8: every returned response has exactly the fields statusCode, headers and
\* body, headers {"Content-Type": "application/json"}, and a body that is the
\* JSON text of an object with the single key message and a string value.
C8_ResponseShape ==
    \A i \in Invocations :
        pc[i] = "returned" =>
            /\ DOMAIN response[i] = {"statusCode", "headers", "body"}
            /\ response[i].headers = JsonHeaders
            /\ IsMessageObjectText(response[i].body)

C8_Witness ==
    /\ pc[Main] = "returned"
    /\ outcome[Main] = ClientErrorOutcome(<<"n", "o", " ", "\"", "q", "\"">>)
    /\ response[Main].statusCode = 500

\* ---- C9
\* C9: with a non-empty queue address and a non-empty queryStringParameters
\* mapping, whatever an invocation has sent is one message, addressed to the
\* configured queue address, whose payload is the JSON text of exactly that
\* mapping, pair by pair in the mapping's order.
C9_PayloadIsTheMapping ==
    \A i \in Invocations :
        (Started(i) /\ Truthy(Config_sqs_queue_url) /\ ~EmptyQuery(event[i])
           /\ pc[i] \in {"respond", "returned", "raised"}) =>
            sqs_calls[i] =
                << [QueueUrl |-> Config_sqs_queue_url,
                    MessageBody |-> json_dumps(event[i].queryStringParameters)] >>

C9_Witness ==
    /\ Len(sqs_calls[Main]) = 1
    /\ HasQueryField(event[Main])
    /\ event[Main].queryStringParameters
         = Dict(<< <<<<"b">>, Str(<<"x", "\"">>)>>, <<<<"a">>, Str(<<"1">>)>> >>)
    /\ sqs_calls[Main][1].QueueUrl = Str(<<"q", "2">>)
    /\ sqs_calls[Main][1].MessageBody =
         << "{", "\"", "b", "\"", ":", " ", "\"", "x", "\\", "\"", "\"", ",", " ",
            "\"", "a", "\"", ":", " ", "\"", "1", "\"", "}" >>

\* ---- C10
\* What one invocation run alone would send and return, from its own event,
\* the shared queue address and what the provider did with its own call.
AloneCalls(ev, url, o) ==
    IF ~Truthy(url) THEN <<>>
    ELSE << [QueueUrl |-> url,
             MessageBody |-> json_dumps(IF EmptyQuery(ev) THEN EmptyDict
                                        ELSE ev.queryStringParameters)] >>

AloneResponse(ev, url, o) ==
    IF ~Truthy(url)
    THEN [statusCode |-> 500, headers |-> JsonHeaders,
          body |-> MessageJsonText(MissingConfigText)]
    ELSE CASE o.kind = "ok" ->
                [statusCode |-> 200, headers |-> JsonHeaders,
                 body |-> MessageJsonText(SuccessText)]
           [] o.kind = "ClientError" ->
                [statusCode |-> 500, headers |-> JsonHeaders,
                 body |-> MessageJsonText(FailedPrefix \o EscapeStr(o.v))]
           [] OTHER -> None

OwnInputsDecide ==
    \A i \in Invocations :
        Done(i) =>
            /\ response[i] = AloneResponse(event[i], Config_sqs_queue_url, outcome[i])
            /\ sqs_calls[i] = AloneCalls(event[i], Config_sqs_queue_url, outcome[i])

\* A step that is not invocation i's leaves everything of invocation i as it
\* was, and no step of any invocation writes the shared queue address.
OthersUntouched ==
    /\ Config_sqs_queue_url' = Config_sqs_queue_url
    /\ \A i \in Invocations :
         pc'[i] = pc[i] =>
            /\ event'[i] = event[i]
            /\ config'[i] = config[i]
            /\ sqs_client'[i] = sqs_client[i]
            /\ query_params'[i] = query_params[i]
            /\ result'[i] = result[i]
            /\ response'[i] = response[i]
            /\ sqs_calls'[i] = sqs_calls[i]
            /\ outcome'[i] = outcome[i]

\* C10: under every interleaving of concurrent invocations, each invocation's
\* response and sent payload are what its own event, the shared queue address
\* and the outcome of its own send decide, and no step of one invocation
\* changes anything another invocation reads.
C10_InterleavingIndependent ==
    []OwnInputsDecide /\ [][OthersUntouched]_vars

C10_Witness ==
    \E i, j \in Invocations :
        /\ i # j
        /\ pc[i] = "returned" /\ outcome[i].kind = "ok"
        /\ pc[j] = "respond" /\ outcome[j].kind = "ClientError"
        /\ event[i] # event[j]

====
